---- MODULE Spec2Model ----
(***************************************************************************)
(* Model of main.py: the MovementDetector (get_heat_color, draw_box,       *)
(* process_frame), the VideoProcessor worker thread (run, stop) and the    *)
(* MainWindow handlers that create, cancel and observe workers.            *)
(*                                                                         *)
(* Numbers produced by np.sqrt are kept in fixed point, in units of        *)
(* 1/Unit pixel; every other quantity is an integer as in the source.      *)
(* A frame is represented by what cv2.findContours returns for it: a       *)
(* sequence of contours, each with its contourArea and its boundingRect.   *)
(* The field obj of a contour names the physical object that produced it;  *)
(* the program never reads it.                                             *)
(***************************************************************************)
EXTENDS Integers, Sequences, FiniteSets, TLC

VARIABLES
    settings,       \* MainWindow.settings: the dict shared with every worker
    prev_centers,   \* MainWindow.detector.prev_centers
    video_path,     \* MainWindow.video_path ("" for None)
    processor,      \* MainWindow.processor: a worker id, 0 for None
    workers,        \* the VideoProcessor objects created so far, by id
    events,         \* signals posted to the GUI thread, not yet delivered
    gui,            \* GUI thread: "idle", "cancel_wait", "close_wait", "closed"
    buttons,        \* select / process enabled, cancel visible
    status_label,   \* MainWindow.status_label text
    call            \* a direct call of one detector function: arguments, result

vars == <<settings, prev_centers, video_path, processor, workers, events,
          gui, buttons, status_label, call>>

-----------------------------------------------------------------------------
(* Bounds of the model *)

MaxRuns == 3
MaxFrames == 2
MaxSpeedArg == 12
BoxFrameW == 5
BoxFrameH == 4
MaxPadding == 2
MaxCalls == 2
Unit == 100
MotionRange == 5

-----------------------------------------------------------------------------
(* Values *)

Blue == <<255, 0, 0>>
Red == <<0, 0, 255>>
NoColor == <<>>
Pink == <<255, 192, 203>>           \* MainWindow.line_color, line 339
EdgeColor == <<255, 255, 170>>      \* MainWindow.edge_color, line 340

Min(a, b) == IF a < b THEN a ELSE b
Max(a, b) == IF a > b THEN a ELSE b
Abs(a) == IF a < 0 THEN -a ELSE a

RECURSIVE ISqrtIn(_, _, _)
ISqrtIn(n, lo, hi) ==
    IF lo >= hi THEN lo
    ELSE LET mid == (lo + hi + 1) \div 2
         IN  IF mid * mid <= n THEN ISqrtIn(n, mid, hi)
             ELSE ISqrtIn(n, lo, mid - 1)

\* np.sqrt of a non-negative integer, in units of 1/Unit
Sqrt(n) == ISqrtIn(n * Unit * Unit, 0, n * Unit)

DefaultSettings ==
    [ min_area      |-> 500,
      box_thickness |-> 2,
      box_style     |-> "solid",
      box_corners   |-> FALSE,
      box_padding   |-> 0,
      heat_map      |-> TRUE,
      show_box      |-> TRUE,
      connection_point |-> "center",
      line_distance |-> 200,
      show_lines    |-> TRUE,
      line_color    |-> Pink,
      negative_effect    |-> TRUE,
      negative_intensity |-> 100,
      heat_intensity     |-> 50,
      edge_detection     |-> TRUE,
      edge_intensity     |-> 50,
      edge_color         |-> EdgeColor ]

-----------------------------------------------------------------------------
(* MovementDetector.get_heat_color.  ratio = min(speed / max_speed, 1.0) is *)
(* kept exact as num / max_speed; int() of a non-negative value is \div.    *)
(* The float arithmetic of the source is exact when max_speed is 0 or a     *)
(* power of two and at ratio 0, 0.25, 0.5, 0.75 and 1; for another          *)
(* max_speed a float product can fall just below the integer it stands for  *)
(* (speed 1, max_speed 3 gives 171 where exact arithmetic gives 170), so    *)
(* the calls below draw max_speed from HeatMaxSpeeds.                       *)

\* get_heat_color without the cap of the ratio at 1.0
get_heat_color_uncapped(speed, max_speed) ==
    IF max_speed = 0 THEN Blue
    ELSE IF 4 * speed < max_speed
        THEN <<255, (255 * 4 * speed) \div max_speed, 0>>
    ELSE IF 2 * speed < max_speed
        THEN <<255 - (255 * (4 * speed - max_speed)) \div max_speed, 255, 0>>
    ELSE IF 4 * speed < 3 * max_speed
        THEN <<0, 255 - (255 * (4 * speed - 2 * max_speed)) \div max_speed,
                  (255 * (4 * speed - 2 * max_speed)) \div max_speed>>
    ELSE <<0, (255 * 4 * (max_speed - speed)) \div max_speed, 255>>

get_heat_color(speed, max_speed) ==
    IF max_speed = 0 THEN Blue
    ELSE LET num == Min(speed, max_speed)
         IN  IF 4 * num < max_speed
                THEN <<255, (255 * 4 * num) \div max_speed, 0>>
             ELSE IF 2 * num < max_speed
                THEN <<255 - (255 * (4 * num - max_speed)) \div max_speed, 255, 0>>
             ELSE IF 4 * num < 3 * max_speed
                THEN <<0, 255 - (255 * (4 * num - 2 * max_speed)) \div max_speed,
                          (255 * (4 * num - 2 * max_speed)) \div max_speed>>
             ELSE <<0, (255 * 4 * (max_speed - num)) \div max_speed, 255>>

-----------------------------------------------------------------------------
(* MovementDetector.draw_box.  frame is [width, height] (frame.shape[1],    *)
(* frame.shape[0]).  The result is the rectangle handed to the stroke       *)
(* routines: corners (x, y) and (x + w, y + h).                             *)

draw_box(frame, x, y, w, h, color, stg) ==
    LET padding == stg.box_padding
        x1 == Max(0, x - padding)
        y1 == Max(0, y - padding)
        w1 == Min(frame.width - x1, w + 2 * padding)
        h1 == Min(frame.height - y1, h + 2 * padding)
    IN  [ x |-> x1, y |-> y1, w |-> w1, h |-> h1,
          color |-> color,
          style |-> stg.box_style,
          thickness |-> stg.box_thickness,
          corners |-> stg.box_corners ]

-----------------------------------------------------------------------------
(* MovementDetector.process_frame.  prev_centers is a dict: a function     *)
(* whose domain is the set of stored centroids.  The two passes are two    *)
(* operators, because other threads run between them.                      *)

Black == <<0, 0, 0>>
NoCenters == <<>>

center_of(contour) ==
    <<contour.x + contour.w \div 2, contour.y + contour.h \div 2>>

\* first pass, lines 224-229, for a centroid found in prev_centers
first_pass_speed(center, prev) ==
    LET prev_center == prev[center]
        dx == center[1] - prev_center[1]
        dy == center[2] - prev_center[2]
    IN  Sqrt(dx * dx + dy * dy)

RECURSIVE first_pass(_, _, _, _)
first_pass(contours, stg, prev, max_speed) ==
    IF contours = <<>> THEN max_speed
    ELSE LET contour == Head(contours)
             center == center_of(contour)
         IN  first_pass(Tail(contours), stg, prev,
                 IF contour.area > stg.min_area /\ center \in DOMAIN prev
                 THEN Max(max_speed, first_pass_speed(center, prev))
                 ELSE max_speed)

\* lines 246-249 with a tie |dx| = |dy| sent to the horizontal branch
direction_tie_horizontal(dx, dy) ==
    IF Abs(dx) >= Abs(dy)
    THEN (IF dx > 0 THEN "Right" ELSE "Left")
    ELSE (IF dy > 0 THEN "Down" ELSE "Up")

\* lines 246-249: the direction of a displacement
direction_of(dx, dy) ==
    IF Abs(dx) > Abs(dy)
    THEN (IF dx > 0 THEN "Right" ELSE "Left")
    ELSE (IF dy > 0 THEN "Down" ELSE "Up")

\* the second pass matching a blob to the nearest stored centroid
blob_motion_nearest(center, prev) ==
    IF DOMAIN prev # {}
    THEN LET d2(c) == (center[1] - c[1]) * (center[1] - c[1])
                      + (center[2] - c[2]) * (center[2] - c[2])
             prev_center == CHOOSE c \in DOMAIN prev :
                                \A e \in DOMAIN prev : d2(c) <= d2(e)
             dx == center[1] - prev_center[1]
             dy == center[2] - prev_center[2]
         IN  [ speed |-> Sqrt(dx * dx + dy * dy),
               direction |-> direction_of(dx, dy) ]
    ELSE [ speed |-> 0, direction |-> "N/A" ]

\* second pass, lines 238-249: speed and direction of one blob
blob_motion(center, prev) ==
    IF center \in DOMAIN prev
    THEN LET prev_center == prev[center]
             dx == center[1] - prev_center[1]
             dy == center[2] - prev_center[2]
         IN  [ speed |-> Sqrt(dx * dx + dy * dy),
               direction |-> direction_of(dx, dy) ]
    ELSE [ speed |-> 0, direction |-> "N/A" ]

\* the area filter keeping a contour of area equal to min_area
retained_or_equal(contour, stg) == contour.area >= stg.min_area

\* the area filter of the second pass, line 234
retained(contour, stg) == contour.area > stg.min_area

DictPut(dict, key, value) ==
    [k \in DOMAIN dict \cup {key} |-> IF k = key THEN value ELSE dict[k]]

EmptyOut ==
    [ frame_data |-> <<>>, current_centers |-> NoCenters,
      boxes |-> <<>>, drawn |-> <<>>, rois |-> <<>>, labels |-> <<>>,
      lines |-> <<>> ]

(* ---- lines 251-275: the effects on the region of interest.  The region  *)
(* is represented by one BGR pixel; whether cv2.Canny marks that pixel as  *)
(* an edge is an input.                                                    *)

\* saturate_cast<uchar> of n / 100: round to nearest, a tie to even
round_percent(n) ==
    LET q == n \div 100
        r == n % 100
    IN  IF r > 50 \/ (r = 50 /\ q % 2 = 1) THEN q + 1 ELSE q

\* cv2.addWeighted(src1, 1 - alpha, src2, alpha, 0), alpha = intensity/100.0
addWeighted(src1, src2, intensity) ==
    [ k \in 1..3 |->
        round_percent(src1[k] * (100 - intensity) + src2[k] * intensity) ]

bitwise_not(roi) == [ k \in 1..3 |-> 255 - roi[k] ]

\* lines 269-271: the overlay of the edge effect at the pixel
edge_overlay(is_edge, stg) == IF is_edge THEN stg.edge_color ELSE Black

effect(name, before, overlay, intensity) ==
    [ name |-> name, before |-> before, overlay |-> overlay,
      after |-> addWeighted(before, overlay, intensity) ]

\* the effects with the heat overlay blended before the inversion
apply_effects_heat_first(roi, stg, heat_color, is_edge) ==
    LET s1 == IF stg.heat_map
              THEN << effect("heat", roi, heat_color, stg.heat_intensity) >>
              ELSE <<>>
        r1 == IF s1 = <<>> THEN roi ELSE s1[1].after
        s2 == IF stg.negative_effect
              THEN << effect("invert", r1, bitwise_not(r1),
                             stg.negative_intensity) >>
              ELSE <<>>
        r2 == IF s2 = <<>> THEN r1 ELSE s2[1].after
        s3 == IF stg.edge_detection
              THEN << effect("edge", r2, edge_overlay(is_edge, stg),
                             stg.edge_intensity) >>
              ELSE <<>>
        r3 == IF s3 = <<>> THEN r2 ELSE s3[1].after
    IN  [ stages |-> s1 \o s2 \o s3, roi |-> r3 ]

\* lines 252-275: stages lists the effects applied, in order, each with the
\* region it read and the region it produced; roi is what line 275 writes
apply_effects(roi, stg, heat_color, is_edge) ==
    LET s1 == IF stg.negative_effect
              THEN << effect("invert", roi, bitwise_not(roi),
                             stg.negative_intensity) >>
              ELSE <<>>
        r1 == IF s1 = <<>> THEN roi ELSE s1[1].after
        s2 == IF stg.heat_map
              THEN << effect("heat", r1, heat_color, stg.heat_intensity) >>
              ELSE <<>>
        r2 == IF s2 = <<>> THEN r1 ELSE s2[1].after
        s3 == IF stg.edge_detection
              THEN << effect("edge", r2, edge_overlay(is_edge, stg),
                             stg.edge_intensity) >>
              ELSE <<>>
        r3 == IF s3 = <<>> THEN r2 ELSE s3[1].after
    IN  [ stages |-> s1 \o s2 \o s3, roi |-> r3 ]

(* ---- lines 283-289: the label.  The text is kept in its parts: the     *)
(* integer area, and the integer speed with its suffix when it is there.  *)

\* the label with the speed part written for every speed
info_text_any_speed(area, speed) ==
    IF speed >= 0
    THEN [ area |-> area, speed |-> << speed \div Unit >>, suffix |-> "px/f" ]
    ELSE [ area |-> area, speed |-> <<>>, suffix |-> "" ]

info_text(area, speed) ==
    IF speed > 0
    THEN [ area |-> area, speed |-> << speed \div Unit >>, suffix |-> "px/f" ]
    ELSE [ area |-> area, speed |-> <<>>, suffix |-> "" ]

\* line 306 storing the corner of the box as the value of the entry
corner_entry(contour, center) == <<contour.x, contour.y>>

\* line 306: the value stored under the centroid is the centroid
center_entry(contour, center) == center

\* second pass, lines 232-306, for one retained contour
second_pass_blob(frame, contour, color, stg, prev, max_speed, acc) ==
    LET center == center_of(contour)
        motion == blob_motion(center, prev)
        box_color == IF stg.heat_map
                     THEN get_heat_color(motion.speed, max_speed)
                     ELSE color
        connection_point == IF stg.connection_point = "center"
                            THEN center
                            ELSE <<contour.x, contour.y>>
        heat_color == get_heat_color(motion.speed, max_speed)
    IN  [ frame_data |-> Append(acc.frame_data,
              [ area |-> contour.area,
                position |-> [ x |-> contour.x, y |-> contour.y,
                               width |-> contour.w, height |-> contour.h ],
                speed |-> motion.speed,
                direction |-> motion.direction ]),
          current_centers |-> DictPut(acc.current_centers, center,
                                      center_entry(contour, center)),
          rois |-> Append(acc.rois,
              apply_effects(frame.pixel, stg, heat_color, frame.is_edge)),
          labels |-> Append(acc.labels, info_text(contour.area, motion.speed)),
          lines |-> acc.lines,
          boxes |-> Append(acc.boxes,
              [ center |-> center, connection_point |-> connection_point,
                area |-> contour.area ]),
          drawn |-> Append(acc.drawn,
              draw_box(frame, contour.x, contour.y, contour.w, contour.h,
                       box_color, stg)) ]

RECURSIVE second_pass(_, _, _, _, _, _, _)
second_pass(frame, contours, color, stg, prev, max_speed, acc) ==
    IF contours = <<>> THEN acc
    ELSE second_pass(frame, Tail(contours), color, stg, prev, max_speed,
             IF retained(Head(contours), stg)
             THEN second_pass_blob(frame, Head(contours), color, stg, prev,
                                   max_speed, acc)
             ELSE acc)

(* ---- lines 308-323: the lines between nearby boxes.  np.sqrt is not    *)
(* taken: with d2 the squared distance of the two connection points, an   *)
(* integer, distance < line_distance is d2 < line_distance^2, and         *)
(* int(255 * (1 - distance / line_distance)) is 255 - m for the least     *)
(* integer m with (m * line_distance)^2 >= 255^2 * d2.                     *)

squared_distance(point1, point2) ==
    (point1[1] - point2[1]) * (point1[1] - point2[1])
    + (point1[2] - point2[2]) * (point1[2] - point2[2])

\* line 316 with <= for <
near_or_at(d2, stg) == d2 <= stg.line_distance * stg.line_distance

\* line 316: distance < settings['line_distance']
near(d2, stg) == d2 < stg.line_distance * stg.line_distance

\* line 317: intensity
line_intensity(d2, line_distance) ==
    LET q == 65025 * d2
        t == ISqrtIn(q, 0, 46340)
        r == IF t * t = q THEN t ELSE t + 1
    IN  255 - (r + line_distance - 1) \div line_distance

\* a channel scaled with rounding to nearest
scale_channel_rounded(channel, intensity) ==
    (channel * intensity + 127) \div 255

\* lines 319-321: int(channel * intensity / 255)
scale_channel(channel, intensity) == (channel * intensity) \div 255

\* lines 312-323 for the boxes i < j
line_between(boxes, i, j, stg) ==
    LET point1 == boxes[i].connection_point
        point2 == boxes[j].connection_point
        intensity == line_intensity(squared_distance(point1, point2),
                                    stg.line_distance)
    IN  [ i |-> i, j |-> j, point1 |-> point1, point2 |-> point2,
          color |-> [ k \in 1..3 |->
                        scale_channel(stg.line_color[k], intensity) ] ]

RECURSIVE draw_lines_from(_, _, _, _, _)
draw_lines_from(boxes, i, j, stg, acc) ==
    IF i > Len(boxes) THEN acc
    ELSE IF j > Len(boxes) THEN draw_lines_from(boxes, i + 1, i + 2, stg, acc)
    ELSE draw_lines_from(boxes, i, j + 1, stg,
             IF near(squared_distance(boxes[i].connection_point,
                                      boxes[j].connection_point), stg)
             THEN Append(acc, line_between(boxes, i, j, stg))
             ELSE acc)

\* lines 309-323
draw_lines(boxes, stg) ==
    IF stg.show_lines THEN draw_lines_from(boxes, 1, 2, stg, <<>>) ELSE <<>>

\* lines 231-323: the second pass over the contours, then the lines
second_pass_and_lines(frame, contours, color, stg, prev, max_speed) ==
    LET acc == second_pass(frame, contours, color, stg, prev, max_speed,
                           EmptyOut)
    IN  [ acc EXCEPT !.lines = draw_lines(acc.boxes, stg) ]

\* line 325 as a merge into the stored dict instead of a replacement
merge_centers(prev, current_centers) ==
    [ c \in DOMAIN prev \cup DOMAIN current_centers |-> c ]

\* line 325: self.prev_centers = current_centers
replace_centers(prev, current_centers) == current_centers

-----------------------------------------------------------------------------
(* Inputs *)

\* Movement Sensitivity slider values (range 50..1000, line 742)
MinAreas == {200, 500}

\* the frame handed to process_frame
VideoFrame == [ width |-> 60, height |-> 40,
                pixel |-> <<10, 20, 30>>, is_edge |-> FALSE ]

Objs == {1, 2}
Areas == {200, 500, 800}
\* bounding rectangles inside VideoFrame; the first and the last have the
\* same centroid (20, 15), the second touches the right and bottom edges
Rects ==
    { [ x |-> 0,  y |-> 0,  w |-> 40, h |-> 30 ],
      [ x |-> 20, y |-> 10, w |-> 40, h |-> 30 ],
      [ x |-> 1,  y |-> 0,  w |-> 38, h |-> 30 ] }

Contour(obj, area, rect) ==
    [ obj |-> obj, area |-> area,
      x |-> rect.x, y |-> rect.y, w |-> rect.w, h |-> rect.h ]

Contours == { Contour(o, a, r) : o \in Objs, a \in Areas, r \in Rects }

\* what findContours can return: at most one contour per object
Scenes ==
    {<<>>} \cup { <<c>> : c \in Contours }
           \cup { <<c, d>> : c \in { e \in Contours : e.obj = 1 },
                             d \in { e \in Contours : e.obj = 2 } }

-----------------------------------------------------------------------------
(* The window after MainWindow.__init__, with no worker *)

NoCall == [ fn |-> "none" ]

WindowInit ==
    /\ settings = DefaultSettings
    /\ prev_centers = NoCenters
    /\ video_path = ""
    /\ processor = 0
    /\ workers = <<>>
    /\ events = <<>>
    /\ gui = "idle"
    /\ buttons = [ select |-> TRUE, process |-> FALSE, cancel |-> FALSE ]
    /\ status_label = "Select a video file to begin"

window_vars == <<video_path, processor, workers, events, gui, buttons,
                 status_label>>

-----------------------------------------------------------------------------
(* get_heat_color called on its own *)

\* the max_speed arguments: 0 and powers of two
HeatMaxSpeeds == {0, 1, 2, 4, 8, 16}

HeatInit ==
    /\ WindowInit
    /\ call \in { [ fn |-> "get_heat_color", speed |-> s, max_speed |-> m,
                    done |-> FALSE, color |-> NoColor ] :
                  s \in 0..MaxSpeedArg, m \in HeatMaxSpeeds }

HeatCall ==
    /\ call.fn = "get_heat_color"
    /\ ~call.done
    /\ call' = [ call EXCEPT !.done = TRUE,
                     !.color = get_heat_color(call.speed, call.max_speed) ]
    /\ UNCHANGED <<settings, prev_centers, window_vars>>

HeatNext == HeatCall

SpecHeat == HeatInit /\ [][HeatNext]_vars

-----------------------------------------------------------------------------
(* draw_box called on its own, for every blob box inside a small frame *)

BoxFrame == [ width |-> BoxFrameW, height |-> BoxFrameH ]

BoxInit ==
    /\ WindowInit
    /\ call \in { [ fn |-> "draw_box", x |-> x, y |-> y, w |-> w, h |-> h,
                    padding |-> p, done |-> FALSE, box |-> <<>> ] :
                  x \in 0..(BoxFrameW - 1), y \in 0..(BoxFrameH - 1),
                  w \in 1..BoxFrameW, h \in 1..BoxFrameH,
                  p \in 0..MaxPadding }
    /\ call.x + call.w <= BoxFrameW
    /\ call.y + call.h <= BoxFrameH

BoxCall ==
    /\ call.fn = "draw_box"
    /\ ~call.done
    /\ call' = [ call EXCEPT !.done = TRUE,
                     !.box = draw_box(BoxFrame, call.x, call.y, call.w, call.h,
                                 Black,
                                 [ settings EXCEPT !.box_padding = call.padding ]) ]
    /\ UNCHANGED <<settings, prev_centers, window_vars>>

BoxNext == BoxCall

SpecBox == BoxInit /\ [][BoxNext]_vars

-----------------------------------------------------------------------------
(* Lines 251-275 on their own: the effects on one region, for every         *)
(* combination of the three flags.  The intensities are those for which     *)
(* the float weights of addWeighted are exact.                              *)

EffectPixels == { <<10, 20, 30>>, <<200, 100, 0>> }
EffectIntensities == {0, 50, 100}

EffectsInit ==
    /\ WindowInit
    /\ call \in { [ fn |-> "apply_effects", roi |-> roi, is_edge |-> e,
                    negative_effect |-> ne, negative_intensity |-> ni,
                    heat_map |-> hm, heat_intensity |-> hi,
                    edge_detection |-> ed, edge_intensity |-> ei,
                    done |-> FALSE, result |-> <<>> ] :
                  roi \in EffectPixels, e \in BOOLEAN,
                  ne \in BOOLEAN, ni \in EffectIntensities,
                  hm \in BOOLEAN, hi \in EffectIntensities,
                  ed \in BOOLEAN, ei \in EffectIntensities }

EffectsCall ==
    /\ call.fn = "apply_effects"
    /\ ~call.done
    /\ call' = [ call EXCEPT !.done = TRUE,
                     !.result = apply_effects(call.roi,
                         [ settings EXCEPT
                             !.negative_effect = call.negative_effect,
                             !.negative_intensity = call.negative_intensity,
                             !.heat_map = call.heat_map,
                             !.heat_intensity = call.heat_intensity,
                             !.edge_detection = call.edge_detection,
                             !.edge_intensity = call.edge_intensity ],
                         get_heat_color(0, 0), call.is_edge) ]
    /\ UNCHANGED <<settings, prev_centers, window_vars>>

EffectsNext == EffectsCall

SpecEffects == EffectsInit /\ [][EffectsNext]_vars

-----------------------------------------------------------------------------
(* Lines 238-249 on their own: the motion of a blob whose centroid is      *)
(* stored with a previous centroid, for every displacement in the range    *)

MotionCenter == <<MotionRange, MotionRange>>

MotionInit ==
    /\ WindowInit
    /\ call \in { [ fn |-> "blob_motion", center |-> MotionCenter,
                    prev_center |-> <<px, py>>,
                    done |-> FALSE, motion |-> <<>> ] :
                  px \in 0..(2 * MotionRange), py \in 0..(2 * MotionRange) }

MotionCall ==
    /\ call.fn = "blob_motion"
    /\ ~call.done
    /\ call' = [ call EXCEPT !.done = TRUE,
                     !.motion = blob_motion(call.center,
                         [ c \in { call.center } |-> call.prev_center ]) ]
    /\ UNCHANGED <<settings, prev_centers, window_vars>>

MotionNext == MotionCall

SpecMotion == MotionInit /\ [][MotionNext]_vars

-----------------------------------------------------------------------------
(* process_frame called frame after frame by one caller, the settings      *)
(* changing between any two steps                                          *)

FrameInit ==
    /\ WindowInit
    /\ call = [ fn |-> "process_frame", stage |-> "idle", n |-> 0,
                last_contours |-> <<>>, contours |-> <<>>,
                stored |-> NoCenters, max_speed |-> 0, out |-> EmptyOut ]

\* lines 203-229: the contours of the frame, and the first pass
FrameFirstPass ==
    /\ call.fn = "process_frame"
    /\ call.stage = "idle"
    /\ call.n < MaxCalls
    /\ \E contours \in Scenes :
          call' = [ call EXCEPT
                      !.stage = "second",
                      !.last_contours = call.contours,
                      !.contours = contours,
                      !.stored = prev_centers,
                      !.out = EmptyOut,
                      !.max_speed = first_pass(contours, settings,
                                               prev_centers, 0) ]
    /\ UNCHANGED <<settings, prev_centers, window_vars>>

\* lines 231-326: the second pass and the replacement of prev_centers
FrameSecondPass ==
    /\ call.fn = "process_frame"
    /\ call.stage = "second"
    /\ LET out == second_pass_and_lines(VideoFrame, call.contours, Black,
                              settings, prev_centers, call.max_speed)
       IN  /\ call' = [ call EXCEPT !.stage = "idle", !.n = call.n + 1,
                                    !.out = out ]
           /\ prev_centers' = replace_centers(prev_centers, out.current_centers)
    /\ UNCHANGED <<settings, window_vars>>

\* MainWindow.update_sensitivity
FrameSensitivity ==
    /\ call.fn = "process_frame"
    /\ \E value \in MinAreas : settings' = [ settings EXCEPT !.min_area = value ]
    /\ UNCHANGED <<prev_centers, window_vars, call>>

FrameNext == FrameFirstPass \/ FrameSecondPass \/ FrameSensitivity

SpecFrame == FrameInit /\ [][FrameNext]_vars

-----------------------------------------------------------------------------
(* process_frame called frame after frame on scenes of up to three blobs,  *)
(* the box and line settings changing between any two steps                *)

RenderFrame == [ width |-> 320, height |-> 240,
                 pixel |-> <<10, 20, 30>>, is_edge |-> TRUE ]

\* Line Distance slider values (range 50..500, line 748)
LineDistances == {50, 200}

\* corners of A and B 50 apart, centroids of A and C 100 apart, A and D
\* with the same corner, E more than 200 away from A
RectA == [ x |-> 0,   y |-> 0,   w |-> 40, h |-> 30 ]
RectB == [ x |-> 30,  y |-> 40,  w |-> 20, h |-> 10 ]
RectC == [ x |-> 100, y |-> 0,   w |-> 40, h |-> 30 ]
RectD == [ x |-> 0,   y |-> 0,   w |-> 20, h |-> 10 ]
RectE == [ x |-> 300, y |-> 200, w |-> 10, h |-> 10 ]

RenderScenes ==
    { <<>>,
      << Contour(1, 800, RectA) >>,
      << Contour(1, 800, RectA), Contour(2, 800, RectB) >>,
      << Contour(1, 800, RectA), Contour(2, 800, RectC) >>,
      << Contour(1, 800, RectA), Contour(2, 800, RectD) >>,
      << Contour(1, 800, RectA), Contour(2, 800, RectE) >>,
      << Contour(1, 800, RectA), Contour(2, 800, RectB),
         Contour(3, 800, RectC) >>,
      << Contour(1, 800, RectA), Contour(2, 200, RectB),
         Contour(3, 800, RectC) >> }

RenderInit ==
    /\ WindowInit
    /\ call = [ fn |-> "process_frame", stage |-> "idle", n |-> 0,
                last_contours |-> <<>>, contours |-> <<>>,
                stored |-> NoCenters, max_speed |-> 0, out |-> EmptyOut ]

\* lines 203-229: the contours of the frame, and the first pass
RenderFirstPass ==
    /\ call.fn = "process_frame"
    /\ call.stage = "idle"
    /\ call.n < MaxCalls
    /\ \E contours \in RenderScenes :
          call' = [ call EXCEPT
                      !.stage = "second",
                      !.last_contours = call.contours,
                      !.contours = contours,
                      !.stored = prev_centers,
                      !.out = EmptyOut,
                      !.max_speed = first_pass(contours, settings,
                                               prev_centers, 0) ]
    /\ UNCHANGED <<settings, prev_centers, window_vars>>

\* lines 231-326: the second pass, the lines, the replacement
RenderSecondPass ==
    /\ call.fn = "process_frame"
    /\ call.stage = "second"
    /\ LET out == second_pass_and_lines(RenderFrame, call.contours, Black,
                              settings, prev_centers, call.max_speed)
       IN  /\ call' = [ call EXCEPT !.stage = "idle", !.n = call.n + 1,
                                    !.out = out ]
           /\ prev_centers' = replace_centers(prev_centers, out.current_centers)
    /\ UNCHANGED <<settings, window_vars>>

\* MainWindow.toggle_show_box, lines 905-906
toggle_show_box ==
    /\ \E state \in BOOLEAN : settings' = [ settings EXCEPT !.show_box = state ]
    /\ UNCHANGED <<prev_centers, window_vars, call>>

\* MainWindow.toggle_lines, lines 819-820
toggle_lines ==
    /\ \E state \in BOOLEAN : settings' = [ settings EXCEPT !.show_lines = state ]
    /\ UNCHANGED <<prev_centers, window_vars, call>>

\* MainWindow.update_line_distance, lines 815-817
update_line_distance ==
    /\ \E value \in LineDistances :
          settings' = [ settings EXCEPT !.line_distance = value ]
    /\ UNCHANGED <<prev_centers, window_vars, call>>

\* MainWindow.update_connection_point, lines 908-909
update_connection_point ==
    /\ \E point \in { "center", "corner" } :
          settings' = [ settings EXCEPT !.connection_point = point ]
    /\ UNCHANGED <<prev_centers, window_vars, call>>

RenderNext ==
    \/ RenderFirstPass
    \/ RenderSecondPass
    \/ toggle_show_box
    \/ toggle_lines
    \/ update_line_distance
    \/ update_connection_point

SpecRender == RenderInit /\ [][RenderNext]_vars

-----------------------------------------------------------------------------
(* The application: the GUI thread running MainWindow's handlers, and the  *)
(* VideoProcessor threads running run().  A signal emitted by a worker is  *)
(* posted to the GUI thread (a queued connection) and delivered by its     *)
(* event loop, in emission order, between user events.                     *)

\* what a run's capture can deliver
RunScenes ==
    { <<>>,
      << Contour(1, 800, [ x |-> 0,  y |-> 0,  w |-> 40, h |-> 30 ]) >> }

InLoop == { "while", "read", "process", "second", "write" }

\* VideoProcessor.__init__, lines 20-27, and the locals of run
NewWorker(stg) ==
    [ pc |-> "start",
      is_running |-> TRUE,
      settings_at_start |-> stg,    \* history: the settings when created
      stop_pc |-> "never",          \* history: where stop() found the run
      raised |-> FALSE,             \* history: run caught an exception
      terminal |-> <<>>,            \* history: finished / error emitted
      cap_open |-> FALSE,
      out_open |-> FALSE,
      frames_read |-> 0,            \* frames cap.read has delivered
      frame_count |-> 0,            \* frames written (line 111)
      progress |-> 0,               \* progress signals emitted
      contours |-> <<>>,
      stored |-> NoCenters,         \* history: prev_centers at the first pass
      max_speed |-> 0,
      frame_data |-> <<>> ]

\* run has returned.  Of a finished thread the window reads isRunning()
\* only (lines 954 and 972): what remains is the flag, whether the capture
\* and the writer were released, and the history of the run.
Returned(worker) ==
    [ NewWorker(DefaultSettings) EXCEPT
          !.pc = "done",
          !.is_running = worker.is_running,
          !.raised = worker.raised,
          !.terminal = worker.terminal,
          !.cap_open = worker.cap_open,
          !.out_open = worker.out_open ]

Ids == DOMAIN workers

\* QThread.isRunning
isRunning(w) == workers[w].pc # "done"

Emit(sig, w) == Append(events, [ sig |-> sig, from |-> w ])

\* MainWindow.set_processing_state, lines 911-919
set_processing_state(is_processing) ==
    [ select |-> ~is_processing, process |-> ~is_processing,
      cancel |-> is_processing ]

detector_vars == <<settings, prev_centers>>

(* ---- the worker thread: VideoProcessor.run ---- *)

\* lines 39-89: open the capture, find a codec for the writer; with none,
\* line 79 raises and the handler, lines 125-126, emits error
RunOpen(w) ==
    /\ workers[w].pc = "start"
    /\ \E writer_ok \in BOOLEAN :
          IF writer_ok
          THEN /\ workers' = [ workers EXCEPT ![w].cap_open = TRUE,
                                              ![w].out_open = TRUE,
                                              ![w].pc = "while" ]
               /\ UNCHANGED events
          ELSE /\ workers' = [ workers EXCEPT
                     ![w] = Returned([ @ EXCEPT !.cap_open = TRUE,
                                                !.raised = TRUE,
                                                !.terminal = << "error" >> ]) ]
               /\ events' = Emit("error", w)
    /\ UNCHANGED <<detector_vars, video_path, processor, gui, buttons,
                   status_label, call>>

\* line 92 without the test of is_running
LoopTestIgnoringStop(w) ==
    /\ workers[w].pc = "while"
    /\ workers' = [ workers EXCEPT
          ![w].pc = IF workers[w].cap_open THEN "read" ELSE "release" ]
    /\ UNCHANGED <<detector_vars, video_path, processor, events, gui, buttons,
                   status_label, call>>

\* line 92: while cap.isOpened() and self.is_running
LoopTest(w) ==
    /\ workers[w].pc = "while"
    /\ workers' = [ workers EXCEPT
          ![w].pc = IF workers[w].cap_open /\ workers[w].is_running
                    THEN "read" ELSE "release" ]
    /\ UNCHANGED <<detector_vars, video_path, processor, events, gui, buttons,
                   status_label, call>>

\* lines 93-99: cap.read
Read(w) ==
    /\ workers[w].pc = "read"
    /\ \E ret \in BOOLEAN :
          /\ ret => workers[w].frames_read < MaxFrames
          /\ workers' = [ workers EXCEPT
                ![w].frames_read = IF ret THEN @ + 1 ELSE @,
                ![w].pc = IF ret THEN "process" ELSE "release" ]
    /\ UNCHANGED <<detector_vars, video_path, processor, events, gui, buttons,
                   status_label, call>>

\* lines 101 and 203-229: process_frame up to the end of the first pass
FirstPass(w) ==
    /\ workers[w].pc = "process"
    /\ \E contours \in RunScenes :
          workers' = [ workers EXCEPT
              ![w].contours = contours,
              ![w].stored = prev_centers,
              ![w].max_speed = first_pass(contours, settings, prev_centers, 0),
              ![w].pc = "second" ]
    /\ UNCHANGED <<detector_vars, video_path, processor, events, gui, buttons,
                   status_label, call>>

\* lines 231-326: the second pass, the replacement of prev_centers, return
SecondPass(w) ==
    /\ workers[w].pc = "second"
    /\ LET out == second_pass_and_lines(VideoFrame, workers[w].contours,
                              Black, settings, prev_centers,
                              workers[w].max_speed)
       IN  /\ workers' = [ workers EXCEPT ![w].frame_data = out.frame_data,
                                          ![w].pc = "write" ]
           /\ prev_centers' = replace_centers(prev_centers, out.current_centers)
    /\ UNCHANGED <<settings, video_path, processor, events, gui, buttons,
                   status_label, call>>

\* lines 106-113: write the frame, count it, emit progress.  The locals of
\* the iteration are dead from here on.  update_progress only sets the
\* progress bar, which the model does not hold: the progress signal is
\* counted in the worker (progress) and not queued.
Write(w) ==
    /\ workers[w].pc = "write"
    /\ workers' = [ workers EXCEPT
          ![w].frame_count = @ + 1,
          ![w].progress = @ + 1,
          ![w].contours = <<>>,
          ![w].stored = NoCenters,
          ![w].max_speed = 0,
          ![w].frame_data = <<>>,
          ![w].pc = "while" ]
    /\ UNCHANGED <<detector_vars, video_path, processor, events, gui, buttons,
                   status_label, call>>

\* an exception raised in the loop that the handler does not catch
RaiseUnhandled(w) ==
    /\ workers[w].pc \in { "read", "process", "second", "write" }
    /\ workers' = [ workers EXCEPT ![w] = Returned([ @ EXCEPT !.raised = TRUE ]) ]
    /\ UNCHANGED <<detector_vars, video_path, processor, events, gui, buttons,
                   status_label, call>>

\* an exception raised by cap.read, process_frame or out.write, and its
\* handler, lines 125-126
Raise(w) ==
    /\ workers[w].pc \in { "read", "process", "second", "write" }
    /\ workers' = [ workers EXCEPT
          ![w] = Returned([ @ EXCEPT !.raised = TRUE,
                                     !.terminal = << "error" >> ]) ]
    /\ events' = Emit("error", w)
    /\ UNCHANGED <<detector_vars, video_path, processor, gui, buttons,
                   status_label, call>>

\* lines 115-126: release both, save the detection data (which may raise),
\* emit finished, or error from the handler
Release(w) ==
    /\ workers[w].pc = "release"
    /\ \E saved \in BOOLEAN :
          /\ workers' = [ workers EXCEPT
                ![w] = Returned([ @ EXCEPT
                          !.cap_open = FALSE,
                          !.out_open = FALSE,
                          !.raised = ~saved,
                          !.terminal = << IF saved THEN "finished"
                                          ELSE "error" >> ]) ]
          /\ events' = Emit(IF saved THEN "finished" ELSE "error", w)
    /\ UNCHANGED <<detector_vars, video_path, processor, gui, buttons,
                   status_label, call>>

\* VideoProcessor.stop, lines 128-129
stop(w) ==
    [ workers EXCEPT ![w].is_running = FALSE, ![w].stop_pc = workers[w].pc ]

(* ---- the GUI thread: MainWindow ---- *)

\* lines 921-931: the file dialog returns a name, or "" when dismissed
select_video ==
    /\ gui = "idle"
    /\ buttons.select
    /\ \E file_name \in { "", "a.mp4" } :
          IF file_name # ""
          THEN /\ video_path' = file_name
               /\ status_label' = "Selected"
               /\ buttons' = [ buttons EXCEPT !.process = TRUE ]
          ELSE UNCHANGED <<video_path, status_label, buttons>>
    /\ UNCHANGED <<detector_vars, processor, workers, events, gui, call>>

\* lines 933-951
process_video ==
    /\ gui = "idle"
    /\ buttons.process
    /\ Len(workers) < MaxRuns
    /\ IF video_path = ""
       THEN /\ status_label' = "Please select a video file first"
            /\ UNCHANGED <<buttons, processor, workers>>
       ELSE /\ buttons' = set_processing_state(TRUE)
            /\ status_label' = "Processing video..."
            /\ workers' = Append(workers, NewWorker(settings))
            /\ processor' = Len(workers) + 1
    /\ UNCHANGED <<detector_vars, video_path, events, gui, call>>

\* lines 953-956: stop the worker and block in wait()
cancel_processing ==
    /\ gui = "idle"
    /\ buttons.cancel
    /\ IF processor # 0 /\ isRunning(processor)
       THEN /\ workers' = stop(processor)
            /\ gui' = "cancel_wait"
       ELSE UNCHANGED <<workers, gui>>
    /\ UNCHANGED <<detector_vars, video_path, processor, events, buttons,
                   status_label, call>>

\* lines 956-958: wait() returns once run has returned
cancel_processing_return ==
    /\ gui = "cancel_wait"
    /\ ~isRunning(processor)
    /\ gui' = "idle"
    /\ buttons' = set_processing_state(FALSE)
    /\ status_label' = "Processing cancelled"
    /\ UNCHANGED <<detector_vars, video_path, processor, workers, events, call>>

\* lines 971-975
closeEvent ==
    /\ gui = "idle"
    /\ IF processor # 0 /\ isRunning(processor)
       THEN /\ workers' = stop(processor)
            /\ gui' = "close_wait"
       ELSE /\ gui' = "closed"
            /\ UNCHANGED workers
    /\ UNCHANGED <<detector_vars, video_path, processor, events, buttons,
                   status_label, call>>

closeEvent_return ==
    /\ gui = "close_wait"
    /\ ~isRunning(processor)
    /\ gui' = "closed"
    /\ UNCHANGED <<detector_vars, video_path, processor, workers, events,
                   buttons, status_label, call>>

\* MainWindow.update_sensitivity, lines 895-897
update_sensitivity ==
    /\ gui = "idle"
    /\ \E value \in MinAreas : settings' = [ settings EXCEPT !.min_area = value ]
    /\ UNCHANGED <<prev_centers, window_vars, call>>

\* the event loop delivers the oldest posted signal to its slot:
\* processing_finished or processing_error, lines 963-969
Deliver ==
    /\ gui = "idle"
    /\ events # <<>>
    /\ events' = Tail(events)
    /\ buttons' = set_processing_state(FALSE)
    /\ status_label' = IF Head(events).sig = "finished"
                       THEN "Processing complete!" ELSE "Error"
    /\ UNCHANGED <<detector_vars, video_path, processor, workers, gui, call>>

Init == WindowInit /\ call = NoCall

\* the threads end with the application, once the window has closed
Alive(w) == w \in Ids /\ gui # "closed"

Next ==
    \/ select_video
    \/ process_video
    \/ cancel_processing
    \/ cancel_processing_return
    \/ closeEvent
    \/ closeEvent_return
    \/ update_sensitivity
    \/ Deliver
    \/ \E w \in Ids : Alive(w) /\ RunOpen(w)
    \/ \E w \in Ids : Alive(w) /\ LoopTest(w)
    \/ \E w \in Ids : Alive(w) /\ Read(w)
    \/ \E w \in Ids : Alive(w) /\ FirstPass(w)
    \/ \E w \in Ids : Alive(w) /\ SecondPass(w)
    \/ \E w \in Ids : Alive(w) /\ Write(w)
    \/ \E w \in Ids : Alive(w) /\ Raise(w)
    \/ \E w \in Ids : Alive(w) /\ Release(w)

Spec == Init /\ [][Next]_vars

-----------------------------------------------------------------------------
(* One run: the window right after select_video and process_video have    *)
(* started the first worker, and no further process_video                 *)

RunInit ==
    /\ settings \in { [ DefaultSettings EXCEPT !.min_area = a ] : a \in MinAreas }
    /\ prev_centers = NoCenters
    /\ video_path = "a.mp4"
    /\ processor = 1
    /\ workers = << NewWorker(settings) >>
    /\ events = <<>>
    /\ gui = "idle"
    /\ buttons = set_processing_state(TRUE)
    /\ status_label = "Processing video..."
    /\ call = NoCall

RunNext ==
    \/ cancel_processing
    \/ cancel_processing_return
    \/ closeEvent
    \/ closeEvent_return
    \/ update_sensitivity
    \/ Deliver
    \/ \E w \in Ids : Alive(w) /\ RunOpen(w)
    \/ \E w \in Ids : Alive(w) /\ LoopTest(w)
    \/ \E w \in Ids : Alive(w) /\ Read(w)
    \/ \E w \in Ids : Alive(w) /\ FirstPass(w)
    \/ \E w \in Ids : Alive(w) /\ SecondPass(w)
    \/ \E w \in Ids : Alive(w) /\ Write(w)
    \/ \E w \in Ids : Alive(w) /\ Raise(w)
    \/ \E w \in Ids : Alive(w) /\ Release(w)

SpecRun == RunInit /\ [][RunNext]_vars

-----------------------------------------------------------------------------
(* Properties *)

RECURSIVE Kept(_, _)
Kept(contours, min_area) ==
    IF contours = <<>> THEN <<>>
    ELSE IF Head(contours).area > min_area
         THEN <<Head(contours)>> \o Kept(Tail(contours), min_area)
         ELSE Kept(Tail(contours), min_area)

PositionOf(c) == [ x |-> c.x, y |-> c.y, width |-> c.w, height |-> c.h ]

RecordCenter(r) ==
    << r.position.x + r.position.width \div 2,
       r.position.y + r.position.height \div 2 >>

RECURSIVE MaxSpeedOf(_)
MaxSpeedOf(frame_data) ==
    IF frame_data = <<>> THEN 0
    ELSE Max(Head(frame_data).speed, MaxSpeedOf(Tail(frame_data)))

\* the step of SpecFrame in which process_frame returns
FrameReturns ==
    /\ call.fn = "process_frame"
    /\ call.stage = "second"
    /\ call'.stage = "idle"

\* the contour moved: the object was in the previous frame at another place
Shifted(c, last_contours) ==
    \E j \in 1..Len(last_contours) :
        /\ last_contours[j].obj = c.obj
        /\ <<last_contours[j].x, last_contours[j].y>> # <<c.x, c.y>>

\* C1: process_frame returns exactly one record per contour whose area is
\* strictly greater than settings['min_area'], in contour order, and none for
\* a contour of area <= min_area.
C1_RecordPerLargeContour ==
    [][ FrameReturns =>
          LET kept == Kept(call.contours, settings.min_area)
              data == call'.out.frame_data
          IN  /\ Len(data) = Len(kept)
              /\ \A i \in 1..Len(kept) :
                    /\ data[i].area = kept[i].area
                    /\ data[i].position = PositionOf(kept[i]) ]_vars

\* C1 witness: contours of areas 800 and 500 with min_area 500 gave a single
\* record, of area 800.
C1_Witness ==
    /\ call.fn = "process_frame"
    /\ call.stage = "idle"
    /\ call.n >= 1
    /\ Len(call.contours) = 2
    /\ call.contours[1].area = 800
    /\ call.contours[2].area = 500
    /\ settings.min_area = 500
    /\ Len(call.out.frame_data) = 1
    /\ call.out.frame_data[1].area = 800

\* C2 as claimed: a nonzero speed only for a centroid in the stored set; a
\* centroid not in the stored set gets speed 0 and "N/A"; and a blob that
\* shifted between two consecutive frames gets speed 0 and "N/A".
C2_ShiftGivesNA ==
    [][ FrameReturns =>
          LET kept == Kept(call.contours, settings.min_area)
              data == call'.out.frame_data
          IN  \A i \in 1..Len(kept) :
                /\ data[i].speed # 0 => center_of(kept[i]) \in DOMAIN prev_centers
                /\ center_of(kept[i]) \notin DOMAIN prev_centers =>
                       data[i].speed = 0 /\ data[i].direction = "N/A"
                /\ Shifted(kept[i], call.last_contours) =>
                       data[i].speed = 0 /\ data[i].direction = "N/A" ]_vars

\* C2 amended: a centroid not in the stored set gets speed 0 and "N/A"; a
\* centroid in the stored set, the blob shifted or not, gets speed 0 and "Up";
\* no blob gets a nonzero speed.
C2_StoredGivesUp ==
    [][ FrameReturns =>
          LET kept == Kept(call.contours, settings.min_area)
              data == call'.out.frame_data
          IN  \A i \in 1..Len(kept) :
                /\ data[i].speed # 0 => center_of(kept[i]) \in DOMAIN prev_centers
                /\ center_of(kept[i]) \notin DOMAIN prev_centers =>
                       data[i].speed = 0 /\ data[i].direction = "N/A"
                /\ center_of(kept[i]) \in DOMAIN prev_centers =>
                       data[i].speed = 0 /\ data[i].direction = "Up" ]_vars

\* C2 witness: object 1 moved from the first rectangle to the place object 2
\* had in the previous frame, and its record reads speed 0, "Up".
C2_Witness ==
    /\ call.fn = "process_frame"
    /\ call.stage = "idle"
    /\ call.n >= 2
    /\ Len(call.last_contours) = 2
    /\ Len(call.contours) = 1
    /\ call.contours[1].obj = 1
    /\ call.last_contours[1].obj = 1
    /\ call.last_contours[1].x = 0
    /\ call.last_contours[2].x = 20
    /\ call.contours[1].x = 20
    /\ Len(call.out.frame_data) = 1
    /\ call.out.frame_data[1].speed = 0
    /\ call.out.frame_data[1].direction = "Up"

\* C4: after process_frame returns, prev_centers maps exactly the centroids
\* of the blobs retained in that frame, each to itself.
C4_StoredIsCurrent ==
    (call.fn = "process_frame" /\ call.stage = "idle" /\ call.n >= 1) =>
        LET data == call.out.frame_data
            centers == { RecordCenter(data[i]) : i \in 1..Len(data) }
        IN  /\ DOMAIN prev_centers = centers
            /\ \A c \in centers : prev_centers[c] = c

\* C4 witness: a centroid stored before the frame did not recur and is gone,
\* while the frame's own centroid is stored.
C4_Witness ==
    /\ call.fn = "process_frame"
    /\ call.stage = "idle"
    /\ call.n >= 2
    /\ prev_centers # NoCenters
    /\ \E c \in DOMAIN call.stored : c \notin DOMAIN prev_centers

\* C5 as claimed: the second pass reads the prev_centers the first pass
\* read, and the max_speed of the first pass is the maximum of the speeds
\* the second pass recorded.
C5_PassesAgree ==
    \A w \in Ids :
        /\ workers[w].pc = "second" => prev_centers = workers[w].stored
        /\ workers[w].pc = "write" =>
               workers[w].max_speed = MaxSpeedOf(workers[w].frame_data)

\* C3 as claimed: the first frame of every run is processed with no stored
\* centroid set.
C3_ColdAtFirstFrame ==
    \A w \in Ids :
        (workers[w].pc = "process" /\ workers[w].frame_count = 0) =>
            prev_centers = NoCenters

\* C6: stop() takes effect at the loop test only.  A frame that was read is
\* handed to process_frame and written whatever is_running is, the loop is
\* left for the release only from the loop test or a failed read, with every
\* frame read written, and once is_running is false the loop test reads no
\* further frame.
C6_CancelAtFrameBoundary ==
    [][ \A w \in Ids :
          LET a == workers[w]
              b == workers'[w]
          IN  /\ a.pc = "process" => b.pc \in { "process", "second", "done" }
              /\ a.pc = "second" => b.pc \in { "second", "write", "done" }
              /\ a.pc = "write" => b.pc \in { "write", "while", "done" }
              /\ (a.pc = "write" /\ b.pc = "while") =>
                     b.frame_count = a.frame_count + 1
              /\ (a.pc # "release" /\ b.pc = "release") =>
                     /\ a.pc \in { "while", "read" }
                     /\ b.frame_count = b.frames_read
              /\ (a.pc = "while" /\ ~a.is_running) =>
                     b.pc \in { "while", "release" } ]_vars

\* C6 witness: stop() found the run inside process_frame; the frame was
\* written, and the loop was left although the capture had another frame.
C6_Witness ==
    \E w \in Ids :
        /\ workers[w].stop_pc \in { "process", "second" }
        /\ workers[w].pc = "release"
        /\ workers[w].frame_count = workers[w].frames_read
        /\ workers[w].frame_count >= 1
        /\ workers[w].frames_read < MaxFrames

\* C7 as claimed: every frame of a run is processed with the settings that
\* were in force when the run started.
C7_SettingsFixedDuringRun ==
    \A w \in Ids :
        workers[w].pc \in { "process", "second" } =>
            settings = workers[w].settings_at_start

\* C8 as claimed: at most one worker is in its frame loop at any time.
C8_OneWorkerInLoop ==
    Cardinality({ w \in Ids : workers[w].pc \in InLoop }) <= 1

\* C9 as claimed: the rectangle draw_box draws has its corners (x, y) and
\* (x + w, y + h) inside [0, width) x [0, height).
C9_BoxInsideFrame ==
    (call.fn = "draw_box" /\ call.done) =>
        /\ 0 <= call.box.x
        /\ call.box.x + call.box.w < BoxFrame.width
        /\ 0 <= call.box.y
        /\ call.box.y + call.box.h < BoxFrame.height

\* C10: get_heat_color is pure blue when max_speed is 0, whatever the speed,
\* and when speed is 0; it is pure red when speed >= max_speed > 0.
C10_HeatEndpoints ==
    (call.fn = "get_heat_color" /\ call.done) =>
        /\ call.max_speed = 0 => call.color = Blue
        /\ (call.max_speed > 0 /\ call.speed = 0) => call.color = Blue
        /\ (call.max_speed > 0 /\ call.speed >= call.max_speed) =>
               call.color = Red

\* C10 witness: a speed above a positive max_speed gave pure red.
C10_Witness ==
    /\ call.fn = "get_heat_color"
    /\ call.done
    /\ call.max_speed > 0
    /\ call.speed > call.max_speed
    /\ call.color = Red

\* C11 as claimed: at ratio 0 the colour is blue, at 0.25 pure green
\* (B=0,G=255,R=0), at 0.5 pure yellow (B=0,G=255,R=255), at 0.75 an orange
\* (B=0, G strictly between 0 and 255, R=255) and at 1 red.
C11_Breakpoints ==
    (call.fn = "get_heat_color" /\ call.done /\ call.max_speed > 0) =>
        /\ call.speed = 0 => call.color = Blue
        /\ 4 * call.speed = call.max_speed => call.color = <<0, 255, 0>>
        /\ 2 * call.speed = call.max_speed => call.color = <<0, 255, 255>>
        /\ 4 * call.speed = 3 * call.max_speed =>
               /\ call.color[1] = 0
               /\ call.color[2] > 0 /\ call.color[2] < 255
               /\ call.color[3] = 255
        /\ call.speed = call.max_speed => call.color = Red

\* C12: for a blob matched to a previous centroid at displacement (dx, dy)
\* the direction is Right when |dx| > |dy| and dx > 0, Left when |dx| > |dy|
\* and dx < 0, Down when |dx| <= |dy| and dy > 0, Up when |dx| <= |dy| and
\* dy < 0; a tie |dx| = |dy| takes the vertical branch.
C12_Direction ==
    (call.fn = "blob_motion" /\ call.done) =>
        LET dx == call.center[1] - call.prev_center[1]
            dy == call.center[2] - call.prev_center[2]
            direction == call.motion.direction
        IN  /\ (Abs(dx) > Abs(dy) /\ dx > 0) => direction = "Right"
            /\ (Abs(dx) > Abs(dy) /\ dx < 0) => direction = "Left"
            /\ (Abs(dx) <= Abs(dy) /\ dy > 0) => direction = "Down"
            /\ (Abs(dx) <= Abs(dy) /\ dy < 0) => direction = "Up"
            /\ (dx = 5 /\ dy = 2) => direction = "Right"
            /\ (dx = -5 /\ dy = 2) => direction = "Left"
            /\ (dx = 2 /\ dy = 5) => direction = "Down"
            /\ (dx = 2 /\ dy = -5) => direction = "Up"
            /\ (dx = 3 /\ dy = 3) => direction = "Down"

\* C12 witness: the tie (3, 3) was classified Down.
C12_Witness ==
    /\ call.fn = "blob_motion"
    /\ call.done
    /\ call.center[1] - call.prev_center[1] = 3
    /\ call.center[2] - call.prev_center[2] = 3
    /\ call.motion.direction = "Down"

\* C13 as claimed: with show_box false process_frame draws no box; with
\* show_box true it draws one box per retained blob.
C13_NoBoxWhenHidden ==
    [][ FrameReturns =>
          LET kept == Kept(call.contours, settings.min_area)
          IN  /\ ~settings.show_box => call'.out.drawn = <<>>
              /\ settings.show_box => Len(call'.out.drawn) = Len(kept) ]_vars

\* the connection point of a retained contour under the settings
ConnectionPointOf(c) ==
    IF settings.connection_point = "center" THEN center_of(c) ELSE <<c.x, c.y>>

\* the pairs i < j of retained contours whose connection points are at a
\* distance strictly below line_distance
NearPairs(kept) ==
    { p \in (1..Len(kept)) \X (1..Len(kept)) :
        /\ p[1] < p[2]
        /\ LET a == ConnectionPointOf(kept[p[1]])
               b == ConnectionPointOf(kept[p[2]])
           IN  (a[1] - b[1]) * (a[1] - b[1]) + (a[2] - b[2]) * (a[2] - b[2])
                   < settings.line_distance * settings.line_distance }

\* C14: with show_lines, process_frame draws exactly one line for each
\* unordered pair of retained blobs whose connection points (centroid, or
\* top-left corner) are at distance < line_distance, between those points,
\* and none for a pair at distance >= line_distance; without show_lines it
\* draws no line.
C14_LinePerNearPair ==
    [][ FrameReturns =>
          LET kept == Kept(call.contours, settings.min_area)
              lines == call'.out.lines
          IN  IF ~settings.show_lines THEN lines = <<>>
              ELSE /\ Len(lines) = Cardinality(NearPairs(kept))
                   /\ \A p \in NearPairs(kept) :
                         \E k \in 1..Len(lines) :
                            /\ lines[k].i = p[1]
                            /\ lines[k].j = p[2]
                            /\ lines[k].point1 = ConnectionPointOf(kept[p[1]])
                            /\ lines[k].point2 = ConnectionPointOf(kept[p[2]])
        ]_vars

\* C14 witness: of three retained blobs one pair only was near enough, and
\* one line was drawn.
C14_Witness ==
    /\ call.fn = "process_frame"
    /\ call.stage = "idle"
    /\ Len(call.out.frame_data) = 3
    /\ Len(call.out.lines) = 1
    /\ call.out.lines[1].i = 1
    /\ call.out.lines[1].j = 2

\* the squared length of a drawn line
LineD2(l) == squared_distance(l.point1, l.point2)

\* C15 as claimed: every channel of a line is the configured channel times
\* 1 - distance/line_distance: the configured channel at distance 0, half
\* of it (as an integer) at distance line_distance/2.
C15_ChannelTimesFactor ==
    [][ FrameReturns =>
          LET lines == call'.out.lines
              L == settings.line_distance
          IN  \A n \in 1..Len(lines) : \A k \in 1..3 :
                /\ LineD2(lines[n]) = 0 =>
                       lines[n].color[k] = settings.line_color[k]
                /\ 4 * LineD2(lines[n]) = L * L =>
                       lines[n].color[k] = settings.line_color[k] \div 2
        ]_vars

\* C15 amended: every channel of a line is int(channel * intensity / 255)
\* with intensity = int(255 * (1 - distance/line_distance)): the configured
\* channel at distance 0 (intensity 255), int(channel * 127 / 255) at
\* distance line_distance/2 (intensity 127), never above the configured
\* channel.
C15_ChannelTimesIntensity ==
    [][ FrameReturns =>
          LET lines == call'.out.lines
              L == settings.line_distance
          IN  \A n \in 1..Len(lines) : \A k \in 1..3 :
                /\ lines[n].color[k] >= 0
                /\ lines[n].color[k] <= settings.line_color[k]
                /\ LineD2(lines[n]) = 0 =>
                       lines[n].color[k] = settings.line_color[k]
                /\ 4 * LineD2(lines[n]) = L * L =>
                       lines[n].color[k] = (settings.line_color[k] * 127) \div 255
        ]_vars

\* C15 witness: a line of length line_distance/2 was drawn in (127, 95, 101)
\* for the configured (255, 192, 203).
C15_Witness ==
    /\ call.fn = "process_frame"
    /\ call.stage = "idle"
    /\ \E n \in 1..Len(call.out.lines) :
          /\ LineD2(call.out.lines[n]) = 10000
          /\ call.out.lines[n].color = <<127, 95, 101>>

\* the effects whose flag is on, in the order invert, heat, edge
EnabledEffects ==
    (IF call.negative_effect THEN << "invert" >> ELSE <<>>)
    \o (IF call.heat_map THEN << "heat" >> ELSE <<>>)
    \o (IF call.edge_detection THEN << "edge" >> ELSE <<>>)

EffectIntensity(name) ==
    IF name = "invert" THEN call.negative_intensity
    ELSE IF name = "heat" THEN call.heat_intensity
    ELSE call.edge_intensity

\* C16: the effects applied to a region are the enabled ones in the order
\* invert, heat, edge; each reads the region as the earlier effects left it
\* (the inversion is computed from that region) and leaves
\* region*(1-alpha) + overlay*alpha, alpha = intensity/100, rounded; the last
\* result is written back, and with the three flags off the region is
\* written back unchanged.
C16_EffectsInOrder ==
    (call.fn = "apply_effects" /\ call.done) =>
        LET st == call.result.stages
        IN  /\ [ i \in 1..Len(st) |-> st[i].name ] = EnabledEffects
            /\ \A i \in 1..Len(st) :
                  /\ st[i].before = IF i = 1 THEN call.roi ELSE st[i - 1].after
                  /\ st[i].name = "invert" =>
                         \A k \in 1..3 : st[i].overlay[k] = 255 - st[i].before[k]
                  /\ st[i].name = "heat" => st[i].overlay = Blue
                  /\ \A k \in 1..3 :
                        LET a == EffectIntensity(st[i].name)
                            exact == st[i].before[k] * (100 - a)
                                     + st[i].overlay[k] * a
                        IN  Abs(100 * st[i].after[k] - exact) <= 50
            /\ call.result.roi =
                   IF st = <<>> THEN call.roi ELSE st[Len(st)].after
            /\ (~call.negative_effect /\ ~call.heat_map /\ ~call.edge_detection)
                   => call.result.roi = call.roi

\* C16 witness: the three effects were applied, the heat blend on a region
\* the inversion had changed and the edge blend on what the heat blend left.
C16_Witness ==
    /\ call.fn = "apply_effects"
    /\ call.done
    /\ Len(call.result.stages) = 3
    /\ call.result.stages[2].before # call.roi
    /\ call.result.stages[3].before # call.result.stages[2].before
    /\ call.result.roi # call.roi

\* C17 as claimed: the label holds the integer area, and the integer speed
\* with its suffix exactly when the blob's centroid was found in the stored
\* centroid set.
C17_SpeedWhenTracked ==
    [][ FrameReturns =>
          LET kept == Kept(call.contours, settings.min_area)
              labels == call'.out.labels
          IN  /\ Len(labels) = Len(kept)
              /\ \A i \in 1..Len(kept) :
                    /\ labels[i].area = kept[i].area
                    /\ labels[i].speed # <<>>
                           <=> center_of(kept[i]) \in DOMAIN prev_centers
        ]_vars

\* C17 amended: the label holds the integer area, and the integer speed
\* with the suffix "px/f" exactly when the recorded speed is above 0; a blob
\* whose centroid was found in the stored set has speed 0, and its label is
\* the area alone.
C17_SpeedWhenPositive ==
    [][ FrameReturns =>
          LET kept == Kept(call.contours, settings.min_area)
              labels == call'.out.labels
              data == call'.out.frame_data
          IN  /\ Len(labels) = Len(kept)
              /\ \A i \in 1..Len(kept) :
                    /\ labels[i].area = kept[i].area
                    /\ data[i].speed > 0 =>
                           /\ labels[i].speed = << data[i].speed \div Unit >>
                           /\ labels[i].suffix = "px/f"
                    /\ data[i].speed = 0 =>
                           /\ labels[i].speed = <<>>
                           /\ labels[i].suffix = ""
                    /\ center_of(kept[i]) \in DOMAIN prev_centers =>
                           labels[i].speed = <<>>
        ]_vars

\* C17 witness: a blob of area 800 whose centroid was stored by the previous
\* frame got the label "800".
C17_Witness ==
    /\ call.fn = "process_frame"
    /\ call.stage = "idle"
    /\ call.n >= 2
    /\ \E i \in 1..Len(call.out.frame_data) :
          /\ RecordCenter(call.out.frame_data[i]) \in DOMAIN call.stored
          /\ call.out.labels[i] = [ area |-> 800, speed |-> <<>>, suffix |-> "" ]

\* C19: every stored centroid is stored under itself, max_speed is 0 in
\* every frame, every record has speed 0, a blob found in prev_centers has
\* direction "Up", and the heat colour of every blob is pure blue.
C19_SpeedAlwaysZero ==
    /\ \A c \in DOMAIN prev_centers : prev_centers[c] = c
    /\ call.fn = "process_frame" =>
          LET data == call.out.frame_data
          IN  /\ call.max_speed = 0
              /\ \A i \in 1..Len(data) :
                    /\ data[i].speed = 0
                    /\ RecordCenter(data[i]) \in DOMAIN call.stored =>
                           data[i].direction = "Up"
                    /\ call.out.drawn[i].color = Blue
                    /\ \A k \in 1..Len(call.out.rois[i].stages) :
                          call.out.rois[i].stages[k].name = "heat" =>
                              call.out.rois[i].stages[k].overlay = Blue

\* C19 witness: a blob found in prev_centers in the second frame has speed
\* 0, direction "Up" and a blue box.
C19_Witness ==
    /\ call.fn = "process_frame"
    /\ call.stage = "idle"
    /\ call.n >= 2
    /\ \E i \in 1..Len(call.out.frame_data) :
          /\ RecordCenter(call.out.frame_data[i]) \in DOMAIN call.stored
          /\ call.out.frame_data[i].speed = 0
          /\ call.out.frame_data[i].direction = "Up"
          /\ call.out.drawn[i].color = Blue

\* C18 as claimed: the rectangle draw_box draws spans max(0, x - padding)
\* to min(W, x + w + padding) and max(0, y - padding) to
\* min(H, y + h + padding).
C18_PaddingOnEachSide ==
    (call.fn = "draw_box" /\ call.done) =>
        /\ call.box.x = Max(0, call.x - call.padding)
        /\ call.box.x + call.box.w
               = Min(BoxFrame.width, call.x + call.w + call.padding)
        /\ call.box.y = Max(0, call.y - call.padding)
        /\ call.box.y + call.box.h
               = Min(BoxFrame.height, call.y + call.h + call.padding)

\* C20: a run that has returned has emitted exactly one terminal signal,
\* error when it caught an exception and finished otherwise, also when
\* stop() ended the loop; a run that has not returned has emitted none; the
\* signal is posted in the step in which the run returns, and a progress
\* signal is emitted only before it.
C20_OneTerminalSignal ==
    [][ \A w \in Ids :
          LET a == workers[w]
              b == workers'[w]
          IN  /\ b.pc # "done" => b.terminal = <<>>
              /\ b.pc = "done" =>
                     b.terminal = << IF b.raised THEN "error" ELSE "finished" >>
              /\ (a.pc # "done" /\ b.pc = "done") =>
                     events' = Append(events, [ sig |-> b.terminal[1],
                                                from |-> w ])
              /\ a.pc = "done" => (b.pc = "done" /\ b.terminal = a.terminal)
              /\ b.progress > a.progress =>
                     (a.terminal = <<>> /\ b.terminal = <<>>) ]_vars

\* C20 witness: a run whose loop stop() ended returned after writing a
\* frame, and emitted finished.
C20_Witness ==
    \E w \in Ids :
        /\ workers[w].pc = "done"
        /\ ~workers[w].is_running
        /\ ~workers[w].raised
        /\ workers[w].terminal = << "finished" >>
        /\ \E n \in 1..Len(events) :
              events[n] = [ sig |-> "finished", from |-> w ]

\* C21 as claimed: once cancel_processing has stopped a running worker,
\* waited for it and returned, and every signal the worker emitted has been
\* delivered, the status is "Processing cancelled" (stated for a run that
\* caught no exception, whose terminal signal is finished).
C21_CancelledStatusRemains ==
    \A w \in Ids :
        ( /\ ~workers[w].is_running
          /\ workers[w].pc = "done"
          /\ ~workers[w].raised
          /\ gui = "idle"
          /\ \A n \in 1..Len(events) : events[n].from # w )
        => status_label = "Processing cancelled"

\* C22 as claimed: when run has returned, the capture and the writer it
\* opened have been released.
C22_ResourcesReleased ==
    \A w \in Ids :
        workers[w].pc = "done" =>
            (~workers[w].cap_open /\ ~workers[w].out_open)

====
